---- MODULE Spec2Model ----
(***************************************************************************)
(* A model of the YouTube tools HTTP server (src/main.py).                 *)
(*                                                                         *)
(* Strings are TLA+ strings; a character of a string s is SubSeq(s, i, i). *)
(* An Optional[T] value of the program is a tuple: <<>> is None and <<v>>  *)
(* is the value v.                                                         *)
(***************************************************************************)
EXTENDS Integers, Sequences, FiniteSets, TLC

VARIABLES
    proxy,      \* WEBSHARE_PROXY_CONFIG: None, or the proxy URL of the environment
    req,        \* the requests of the server, one record per connection
    loop,       \* the request whose handler occupies the event-loop thread (0: none)
    parse_in,   \* URL parser harness: the URL under test, with how it was built
    parse_out,  \* URL parser harness: <<>> before the call, <<result>> after it
    res_in,     \* language resolver harness: the call's arguments and upstream listing
    res_out,    \* language resolver harness: <<>> before the call, <<result>> after it
    fmt_in,     \* formatter harness: the fetched transcript
    fmt_out     \* formatter harness: <<>> before the call, <<result>> after it

vars == <<proxy, req, loop, parse_in, parse_out, res_in, res_out, fmt_in, fmt_out>>

None == <<>>
Some(v) == <<v>>

-----------------------------------------------------------------------------
(* Python str operations used by the program.                              *)

Char(s, i) == SubSeq(s, i, i)

\* s[i:] with a 0-based index i, as Python slices it.
SliceFrom(s, i) == SubSeq(s, i + 1, Len(s))

\* s[:i] with a 0-based index i.
SliceTo(s, i) == SubSeq(s, 1, i)

RECURSIVE FindFrom(_, _, _)
\* The least 1-based position >= i at which s holds a character of the
\* string set, or 0 when there is none.
FindFrom(s, set, i) ==
    IF i > Len(s) THEN 0
    ELSE IF \E k \in 1..Len(set) : Char(set, k) = Char(s, i) THEN i
    ELSE FindFrom(s, set, i + 1)

\* str.find(c) + 1: the 1-based position of the first c in s, 0 when absent.
Find(s, c) == FindFrom(s, c, 1)

RECURSIVE RFindFrom(_, _, _)
RFindFrom(s, c, i) ==
    IF i < 1 THEN 0
    ELSE IF Char(s, i) = c THEN i
    ELSE RFindFrom(s, c, i - 1)

\* str.rfind(c) + 1.
RFind(s, c) == RFindFrom(s, c, Len(s))

\* str.startswith(prefix)
StartsWith(s, prefix) ==
    Len(s) >= Len(prefix) /\ SubSeq(s, 1, Len(prefix)) = prefix

UpperChars == "ABCDEFGHIJKLMNOPQRSTUVWXYZ"
LowerChars == "abcdefghijklmnopqrstuvwxyz"
DigitChars == "0123456789"

RECURSIVE Lower(_)
\* str.lower() on ASCII text.
Lower(s) ==
    IF s = "" THEN ""
    ELSE LET c == Head(s)
             k == Find(UpperChars, c)
         IN  (IF k > 0 THEN Char(LowerChars, k) ELSE c) \o Lower(Tail(s))

RECURSIVE Split(_, _)
\* str.split(sep) for a one-character separator: the list of the pieces.
Split(s, sep) ==
    LET k == Find(s, sep)
    IN  IF k = 0 THEN <<s>>
        ELSE <<SliceTo(s, k - 1)>> \o Split(SliceFrom(s, k), sep)

\* str.split(sep, 1)
Split1(s, sep) ==
    LET k == Find(s, sep)
    IN  IF k = 0 THEN <<s>> ELSE <<SliceTo(s, k - 1), SliceFrom(s, k)>>

RECURSIVE Replace(_, _, _)
\* str.replace(old, new) for a one-character old.
Replace(s, old, new) ==
    IF s = "" THEN ""
    ELSE (IF Head(s) = old THEN new ELSE Head(s)) \o Replace(Tail(s), old, new)

-----------------------------------------------------------------------------
(* urllib.parse.urlparse and parse_qs, as the program calls them           *)
(* (src/main.py:85-86, 95).  Modelled for URLs over letters, digits and    *)
(* the delimiters : / ? # & = @ . - _ + [ ] ; percent-escapes, ';' path    *)
(* parameters and leading white space are not in the inputs.               *)

SchemeChars == LowerChars \o UpperChars \o DigitChars \o "+-."

\* The scheme prefix rule of urlsplit: the text before the first ':' is a
\* scheme when it starts with a letter and holds scheme characters only.
HasScheme(url) ==
    LET i == Find(url, ":")
    IN  /\ i > 1
        /\ Find(LowerChars \o UpperChars, Char(url, 1)) > 0
        /\ \A k \in 1..(i - 1) : Find(SchemeChars, Char(url, k)) > 0

HexChars == "0123456789abcdefABCDEF"

\* Every character of s is one of the string set.
AllIn(s, set) == \A k \in 1..Len(s) : Find(set, Char(s, k)) > 0

RECURSIVE DecValue(_)
\* int(s, 10) for a string of decimal digits.
DecValue(s) ==
    IF s = "" THEN 0
    ELSE 10 * DecValue(SliceTo(s, Len(s) - 1)) + Find(DigitChars, Char(s, Len(s))) - 1

\* ipaddress._BaseV4._parse_octet returns: a decimal of 1 to 3 digits
\* without a leading zero, at most 255.
parse_octet_ok(s) ==
    /\ s # ""
    /\ AllIn(s, DigitChars)
    /\ Len(s) <= 3
    /\ (s = "0" \/ Char(s, 1) # "0")
    /\ DecValue(s) <= 255

\* ipaddress.IPv4Address(s) is constructed: four octets between dots.
IPv4Address_ok(s) ==
    /\ s # ""
    /\ Find(s, "/") = 0
    /\ Len(Split(s, ".")) = 4
    /\ \A k \in 1..4 : parse_octet_ok(Split(s, ".")[k])

\* ipaddress._BaseV6._parse_hextet returns: 1 to 4 hex digits (int('', 16)
\* raises for the empty string).
parse_hextet_ok(s) == AllIn(s, HexChars) /\ Len(s) <= 4 /\ s # ""

\* The two loops over the hextets in _ip_int_from_string: the first
\* parts_hi parts and the last parts_lo parts.
hextets_ok(parts, parts_hi, parts_lo) ==
    /\ \A i \in 1..parts_hi : parse_hextet_ok(parts[i])
    /\ \A i \in (Len(parts) - parts_lo + 1)..Len(parts) : parse_hextet_ok(parts[i])

\* parts_hi and parts_lo for a '::' at the (1-based) part i: an empty first
\* or last part belongs to the '::'.
skip_parts_hi(parts, i) == IF parts[1] = "" THEN i - 2 ELSE i - 1
skip_parts_lo(parts, i) == IF parts[Len(parts)] = "" THEN Len(parts) - i - 1
                           ELSE Len(parts) - i

\* _ip_int_from_string with a '::' at part i.
ipv6_skip_ok(parts, i) ==
    /\ parts[1] = "" => skip_parts_hi(parts, i) = 0
    /\ parts[Len(parts)] = "" => skip_parts_lo(parts, i) = 0
    /\ 8 - (skip_parts_hi(parts, i) + skip_parts_lo(parts, i)) >= 1
    /\ hextets_ok(parts, skip_parts_hi(parts, i), skip_parts_lo(parts, i))

\* _ip_int_from_string on the parts, given the set of the inner empty parts.
ipv6_parts_ok(parts, skips) ==
    /\ Len(parts) <= 9
    /\ Cardinality(skips) <= 1
    /\ IF skips = {}
       THEN /\ Len(parts) = 8
            /\ parts[1] # ""
            /\ parts[Len(parts)] # ""
            /\ hextets_ok(parts, Len(parts), 0)
       ELSE ipv6_skip_ok(parts, CHOOSE i \in skips : TRUE)

\* The parts between the colons; an IPv4-style last part is replaced by the
\* two hextets of its value (written "0" here: any '%x' of 16 bits parses).
ipv6_parts(parts) ==
    IF Find(parts[Len(parts)], ".") > 0
    THEN SubSeq(parts, 1, Len(parts) - 1) \o <<"0", "0">>
    ELSE parts

\* ipaddress.IPv6Address(s) is constructed.
IPv6Address_ok(s) ==
    /\ s # ""
    /\ Find(s, "/") = 0
    /\ Len(Split(s, ":")) >= 3
    /\ Find(Split(s, ":")[Len(Split(s, ":"))], ".") > 0
         => IPv4Address_ok(Split(s, ":")[Len(Split(s, ":"))])
    /\ ipv6_parts_ok(ipv6_parts(Split(s, ":")),
                     { i \in 2..(Len(ipv6_parts(Split(s, ":"))) - 1) :
                         ipv6_parts(Split(s, ":"))[i] = "" })

RECURSIVE FindNotIn(_, _, _)
\* The least position >= i at which s holds a character outside the string
\* set, or 0 when there is none.
FindNotIn(s, set, i) ==
    IF i > Len(s) THEN 0
    ELSE IF Find(set, Char(s, i)) = 0 THEN i
    ELSE FindNotIn(s, set, i + 1)

\* re.match(r"\Av[a-fA-F0-9]+\..+\Z", s) for an s that starts with 'v'.
IPvFuture_match(s) ==
    /\ FindNotIn(s, HexChars, 2) >= 3
    /\ Char(s, FindNotIn(s, HexChars, 2)) = "."
    /\ FindNotIn(s, HexChars, 2) < Len(s)

\* urllib.parse._check_bracketed_host(hostname) raises ValueError.
check_bracketed_host_raises(host) ==
    IF StartsWith(host, "v") THEN ~IPvFuture_match(host)
    ELSE IF IPv4Address_ok(host) THEN TRUE
    ELSE ~IPv6Address_ok(host)

\* s.partition('[')[2].partition(']')[0]: the text after the first '[' up
\* to the next ']', or to the end when no ']' follows.
bracketed(s) ==
    IF Find(SliceFrom(s, Find(s, "[")), "]") = 0
    THEN SliceFrom(s, Find(s, "["))
    ELSE SliceTo(SliceFrom(s, Find(s, "[")),
                 Find(SliceFrom(s, Find(s, "[")), "]") - 1)

\* The bracket checks of urlsplit on the netloc: ValueError for one bracket
\* without the other, and for a bracketed text that is neither an IPv6 nor
\* an IPvFuture address.
netloc_raises(netloc) ==
    IF (Find(netloc, "[") > 0) # (Find(netloc, "]") > 0) THEN TRUE
    ELSE IF Find(netloc, "[") = 0 THEN FALSE
    ELSE check_bracketed_host_raises(bracketed(netloc))

\* The end of urlsplit: rest is the text after the netloc and before the
\* fragment; its first '?' starts the query.  err is a raised ValueError.
urlsplit_query(scheme, netloc, rest, fragment) ==
    [err      |-> netloc_raises(netloc),
     scheme   |-> scheme,
     netloc   |-> netloc,
     path     |-> IF Find(rest, "?") = 0 THEN rest
                  ELSE SliceTo(rest, Find(rest, "?") - 1),
     query    |-> IF Find(rest, "?") = 0 THEN ""
                  ELSE SliceFrom(rest, Find(rest, "?")),
     fragment |-> fragment]

\* urlsplit after the netloc: the first '#' starts the fragment.
urlsplit_fragment(scheme, netloc, rest) ==
    IF Find(rest, "#") = 0
    THEN urlsplit_query(scheme, netloc, rest, "")
    ELSE urlsplit_query(scheme, netloc, SliceTo(rest, Find(rest, "#") - 1),
                        SliceFrom(rest, Find(rest, "#")))

\* urlsplit after the scheme: "//" starts the netloc, which ends before the
\* first of '/', '?' and '#' (_splitnetloc).
urlsplit_netloc(scheme, rest) ==
    IF ~StartsWith(rest, "//")
    THEN urlsplit_fragment(scheme, "", rest)
    ELSE IF FindFrom(rest, "/?#", 3) = 0
    THEN urlsplit_fragment(scheme, SliceFrom(rest, 2), "")
    ELSE urlsplit_fragment(scheme, SubSeq(rest, 3, FindFrom(rest, "/?#", 3) - 1),
                           SliceFrom(rest, FindFrom(rest, "/?#", 3) - 1))

\* urlparse(url): [err, scheme, netloc, path, query, fragment].
urlparse(url) ==
    IF HasScheme(url)
    THEN urlsplit_netloc(Lower(SliceTo(url, Find(url, ":") - 1)),
                         SliceFrom(url, Find(url, ":")))
    ELSE urlsplit_netloc("", url)

\* _hostinfo[0], the host of the text after the user information: the
\* text between '[' and ']' when there is a '[', else up to the first ':'.
hostinfo_host(hostinfo) ==
    IF Find(hostinfo, "[") > 0 THEN bracketed(hostinfo)
    ELSE IF Find(hostinfo, ":") = 0 THEN hostinfo
    ELSE SliceTo(hostinfo, Find(hostinfo, ":") - 1)

\* ParseResult.hostname: the netloc without user information and port, in
\* lower case; None when it is empty.
hostname(parsed_url) ==
    IF hostinfo_host(SliceFrom(parsed_url.netloc, RFind(parsed_url.netloc, "@"))) = ""
    THEN None
    ELSE Some(Lower(hostinfo_host(SliceFrom(parsed_url.netloc,
                                            RFind(parsed_url.netloc, "@")))))

RECURSIVE QueryValues(_, _)
\* The values parse_qs collects for one name, in query order: pairs are
\* split on '&', a pair on its first '=', '+' decodes to a space, and pairs
\* with no '=' or a blank value are dropped.
QueryValues(pairs, name) ==
    IF pairs = <<>> THEN <<>>
    ELSE LET nv   == Split1(Head(pairs), "=")
             rest == QueryValues(Tail(pairs), name)
         IN  IF Len(nv) = 2 /\ Len(nv[2]) > 0 /\ Replace(nv[1], "+", " ") = name
             THEN <<Replace(nv[2], "+", " ")>> \o rest
             ELSE rest

\* parse_qs(query).get(name, [None])[0]
parse_qs_first(query, name) ==
    LET vals == QueryValues(Split(query, "&"), name)
    IN  IF vals = <<>> THEN None ELSE Some(vals[1])

\* str.endswith(suffix)
EndsWith(s, suffix) ==
    Len(s) >= Len(suffix) /\ SliceFrom(s, Len(s) - Len(suffix)) = suffix

\* Lines 94-109: the rules of the hosts youtube.com and www.youtube.com.
youtube_com_video_id(parsed_url) ==
    IF parsed_url.path = "/watch"
    THEN parse_qs_first(parsed_url.query, "v")
    ELSE IF StartsWith(parsed_url.path, "/embed/")
    THEN Some(Split(parsed_url.path, "/")[3])
    ELSE IF StartsWith(parsed_url.path, "/v/")
    THEN Some(Split(parsed_url.path, "/")[3])
    ELSE None

\* A variant that tests the host with endswith("youtube.com").
host_video_id_endswith(parsed_url, host) ==
    IF host = Some("youtu.be")
    THEN Some(SliceFrom(parsed_url.path, 1))
    ELSE IF host # None /\ EndsWith(host[1], "youtube.com")
    THEN youtube_com_video_id(parsed_url)
    ELSE None

\* Lines 89-109: the video ID for a parsed URL and its hostname.
host_video_id(parsed_url, host) ==
    IF host = Some("youtu.be")
    THEN Some(SliceFrom(parsed_url.path, 1))
    ELSE IF host \in {Some("www.youtube.com"), Some("youtube.com")}
    THEN youtube_com_video_id(parsed_url)
    ELSE None

\* Lines 86-109 on the result of urlparse.
parsed_video_id(parsed_url) ==
    IF parsed_url.err
    THEN [raised |-> TRUE, video_id |-> None]
    ELSE [raised |-> FALSE, video_id |-> host_video_id(parsed_url, hostname(parsed_url))]

\* YouTubeTools.get_youtube_video_id(url): [raised, video_id].  video_id is
\* an Optional[str]; raised is TRUE when urlparse raises.
get_youtube_video_id(url) == parsed_video_id(urlparse(url))

-----------------------------------------------------------------------------
(* The URL parser on its own: a URL is assembled from a scheme prefix, an  *)
(* authority, a path and a query, and get_youtube_video_id is applied to   *)
(* the assembled text.  Each part records what it denotes, so that the     *)
(* parser's answer can be compared with how the URL was built.             *)

VideoIds == {"dQw4w9WgXcQ", "a-B_9"}

\* "//" starts an authority; with the empty prefix the URL has no host.
UrlPrefixes == {"https://", "http://", "//", ""}

\* text: as written in the URL; name: the host it denotes.
UrlHosts ==
    { [text |-> "youtu.be",             name |-> "youtu.be"],
      [text |-> "youtu.be:443",         name |-> "youtu.be"],
      [text |-> "youtube.com",          name |-> "youtube.com"],
      [text |-> "www.youtube.com",      name |-> "www.youtube.com"],
      [text |-> "WWW.YouTube.COM",      name |-> "www.youtube.com"],
      [text |-> "user@youtube.com",     name |-> "youtube.com"],
      [text |-> "m.youtube.com",        name |-> "m.youtube.com"],
      [text |-> "youtube.com.evil.org", name |-> "youtube.com.evil.org"],
      [text |-> "example.com",          name |-> "example.com"],
      [text |-> "[::1]",                name |-> "::1"],
      [text |-> "youtu.be:[::1]",       name |-> "::1"],
      [text |-> "[::1]@youtu.be",       name |-> "youtu.be"],
      [text |-> "",                     name |-> ""] }

\* shape: "id" is /<id>, "watch" is /watch, "embed" is /embed/<id>, "v" is
\* /v/<id>; every other path is "other".
UrlPaths ==
    { [text |-> "/" \o id,        shape |-> "id",    id |-> id] : id \in VideoIds }
    \cup
    { [text |-> "/embed/" \o id,  shape |-> "embed", id |-> id] : id \in VideoIds }
    \cup
    { [text |-> "/v/" \o id,      shape |-> "v",     id |-> id] : id \in VideoIds }
    \cup
    { [text |-> t, shape |-> "other", id |-> ""] :
        t \in {"", "/", "/watch/", "/watchx", "/embed", "/v", "/playlist",
               "/shorts/dQw4w9WgXcQ", "/x/embed/dQw4w9WgXcQ"} }
    \cup
    { [text |-> "/watch", shape |-> "watch", id |-> ""] }

\* v: the value the query gives the parameter v ("" when it gives none).
UrlQueries ==
    { [text |-> "?v=" \o id,             v |-> id] : id \in VideoIds }
    \cup
    { [text |-> "?t=42&v=" \o id,        v |-> id] : id \in VideoIds }
    \cup
    { [text |-> "?v=" \o id \o "&t=42",  v |-> id] : id \in VideoIds }
    \cup
    { [text |-> "?v=" \o id \o "#t=42",  v |-> id] : id \in VideoIds }
    \cup
    { [text |-> t, v |-> ""] : t \in {"", "?v=", "?v", "?list=PL1", "#v=a-B_9"} }

ParseSamples ==
    { [url    |-> pre \o h.text \o p.text \o q.text,
       host   |-> IF pre = "" THEN "" ELSE h.name,
       shape  |-> p.shape,
       id     |-> p.id,
       v      |-> q.v] :
        pre \in UrlPrefixes, h \in UrlHosts, p \in UrlPaths, q \in UrlQueries }

ParseIdle == [url |-> "", host |-> "", shape |-> "other", id |-> "", v |-> ""]

ParseInit ==
    /\ parse_in \in ParseSamples
    /\ parse_out = None

\* One call of get_youtube_video_id on the assembled URL.
ParseCall ==
    /\ parse_out = None
    /\ parse_out' = Some(get_youtube_video_id(parse_in.url))
    /\ UNCHANGED parse_in

-----------------------------------------------------------------------------
(* Language selection of YouTubeTools._get_transcript_with_fallback        *)
(* (src/main.py:179-192).                                                  *)

Range(seq) == { seq[i] : i \in 1..Len(seq) }

\* Python truthiness of an Optional[str] or Optional[List[str]]: None and
\* the empty value are false.
Truthy(opt) == opt # None /\ Len(opt[1]) > 0

RECURSIVE FirstRequested(_, _)
\* The loop of lines 182-184: the first requested code, in the order of
\* the request, that the listing holds; None when the loop falls through.
FirstRequested(languages, available_languages) ==
    IF languages = <<>> THEN None
    ELSE IF Head(languages) \in Range(available_languages)
    THEN Some(Head(languages))
    ELSE FirstRequested(Tail(languages), available_languages)

\* available_languages[0]: [raised, languages].  raised is the IndexError of
\* indexing an empty list; languages is the list handed to fetch.
FirstAvailable(available_languages) ==
    IF available_languages = <<>>
    THEN [raised |-> TRUE, languages |-> <<>>]
    ELSE [raised |-> FALSE, languages |-> <<available_languages[1]>>]

RECURSIVE FirstListed(_, _)
FirstListed(languages, available_languages) ==
    IF available_languages = <<>> THEN None
    ELSE IF Head(available_languages) \in Range(languages)
    THEN Some(Head(available_languages))
    ELSE FirstListed(languages, Tail(available_languages))

\* A variant that scans the listing instead of the requested languages.
ChooseLanguages_listing_order(languages, available_languages) ==
    IF Truthy(languages)
    THEN LET hit == FirstListed(languages[1], available_languages)
         IN  IF hit # None
             THEN [raised |-> FALSE, languages |-> <<hit[1]>>]
             ELSE FirstAvailable(available_languages)
    ELSE IF "en" \in Range(available_languages)
         THEN [raised |-> FALSE, languages |-> <<"en">>]
         ELSE FirstAvailable(available_languages)

\* A variant without the preference for English.
ChooseLanguages_no_english(languages, available_languages) ==
    IF Truthy(languages)
    THEN LET hit == FirstRequested(languages[1], available_languages)
         IN  IF hit # None
             THEN [raised |-> FALSE, languages |-> <<hit[1]>>]
             ELSE FirstAvailable(available_languages)
    ELSE FirstAvailable(available_languages)

\* A variant that hands the requested languages to fetch unchecked.
ChooseLanguages_unchecked(languages, available_languages) ==
    IF Truthy(languages)
    THEN [raised |-> FALSE, languages |-> languages[1]]
    ELSE IF "en" \in Range(available_languages)
         THEN [raised |-> FALSE, languages |-> <<"en">>]
         ELSE FirstAvailable(available_languages)

\* The languages argument of the one fetch call that lines 180-192 make, or
\* the IndexError they raise.
ChooseLanguages(languages, available_languages) ==
    IF Truthy(languages)
    THEN LET hit == FirstRequested(languages[1], available_languages)
         IN  IF hit # None
             THEN [raised |-> FALSE, languages |-> <<hit[1]>>]
             ELSE FirstAvailable(available_languages)
    ELSE IF "en" \in Range(available_languages)
         THEN [raised |-> FALSE, languages |-> <<"en">>]
         ELSE FirstAvailable(available_languages)

-----------------------------------------------------------------------------
(* The formatters of get_video_captions (src/main.py:223-234) and          *)
(* get_video_timestamps (src/main.py:270-281).  A snippet is a record      *)
(* [start, text]; start is the offset in tenths of a second, so 125.7 s    *)
(* is 1257.                                                                *)

NoCaptions == "No captions found for video"

RECURSIVE Join(_, _)
\* sep.join(texts)
Join(sep, texts) ==
    IF texts = <<>> THEN ""
    ELSE IF Len(texts) = 1 THEN texts[1]
    ELSE texts[1] \o sep \o Join(sep, Tail(texts))

\* A variant that tests the transcript against None instead of its length.
caption_text_not_none(fetched_transcript) ==
    Join(" ", [i \in 1..Len(fetched_transcript) |-> fetched_transcript[i].text])

\* Lines 223-234: the truth value of a FetchedTranscript is that of its
\* length, so an empty transcript skips the join.
caption_text(fetched_transcript) ==
    IF Len(fetched_transcript) > 0
    THEN Join(" ", [i \in 1..Len(fetched_transcript) |-> fetched_transcript[i].text])
    ELSE NoCaptions

\* A variant that rounds to the nearest second.
IntOfTenths_round(t) == (t + 5) \div 10

\* int(x) for a float x given in tenths: truncation toward zero.
IntOfTenths(t) == IF t >= 0 THEN t \div 10 ELSE -((-t) \div 10)

RECURSIVE Digits(_)
Digits(n) ==
    IF n < 10 THEN Char(DigitChars, n + 1)
    ELSE Digits(n \div 10) \o Char(DigitChars, (n % 10) + 1)

\* format(n, "d")
FormatInt(n) == IF n < 0 THEN "-" \o Digits(-n) ELSE Digits(n)

\* format(n, "02d"): zero-padded to a width of two, the sign included.
FormatInt02(n) ==
    IF n < 0 THEN "-" \o Digits(-n)
    ELSE IF n < 10 THEN "0" \o Digits(n)
    ELSE Digits(n)

\* Lines 272-274 for one snippet.  divmod floors, as \div and % do.
timestamp(snippet) ==
    LET start   == IntOfTenths(snippet.start)
        minutes == start \div 60
        seconds == start % 60
    IN  FormatInt(minutes) \o ":" \o FormatInt02(seconds) \o " - " \o snippet.text

\* Lines 270-281: one line per snippet, in transcript order.
timestamps(fetched_transcript) ==
    [i \in 1..Len(fetched_transcript) |-> timestamp(fetched_transcript[i])]

-----------------------------------------------------------------------------
(* The HTTP server.  Every request is a coroutine on the one event-loop    *)
(* thread: a handler runs on it from one await to the next, and a blocking *)
(* call made by a handler itself keeps the thread until it returns.        *)
(* asyncio.to_thread runs its function on a worker thread and suspends the *)
(* handler, which resumes on the event loop after the function returned.   *)

MaxReq == 2

Requests == 1..MaxReq

TranscriptEndpoints ==
    {"/video-captions", "/video-timestamps", "/video-transcript-languages"}

\* Request bodies the clients send: the url field ...
RequestUrls ==
    { "",
      "https://example.com/watch?v=dQw4w9WgXcQ",
      "https://youtu.be/",
      "http://[youtu.be/dQw4w9WgXcQ",
      "http://[youtu.be]/dQw4w9WgXcQ",
      "http://youtu.be:[::1]/dQw4w9WgXcQ",
      "https://www.youtube.com/watch?v=dQw4w9WgXcQ" }

\* ... and the optional languages field, which the clients of
\* /video-transcript-languages leave out.
RequestLanguages(ep) ==
    IF ep = "/video-transcript-languages" THEN { None }
    ELSE { None, Some(<<"de", "fr">>) }

\* What the transcript service may answer to list: None is a raised
\* exception, Some(codes) the language codes of the listing, in its order.
ListAnswers == { None, Some(<<>>), Some(<<"es", "fr">>) }

\* What it may answer to fetch: None is a raised exception, Some(snippets)
\* the fetched transcript.
FetchAnswers ==
    { None,
      Some(<<>>),
      Some(<<[start |-> 1257, text |-> "hello"], [start |-> 36605, text |-> "b"]>>) }

\* What the oEmbed endpoint may answer: None is any failure of urlopen or
\* json.loads, Some(title) a JSON document with that title.
OEmbedAnswers == { None, Some("Never Gonna Give You Up") }

\* An upstream call of a request: ret is None while the call is pending,
\* then Some(answer).
Call(op, video_id, languages) ==
    [op |-> op, video_id |-> video_id, languages |-> languages, ret |-> None]

NewRequest ==
    [ep |-> "", pc |-> "idle", url |-> "", languages |-> None,
     video_id |-> "", calls |-> <<>>, exc |-> FALSE, result |-> None,
     status |-> 0, body |-> None]

\* A variant whose handler of Exception answers 500.
validated_500(r) ==
    IF r.raised \/ ~Truthy(r.video_id)
    THEN [status |-> 500, detail |-> "Error getting video ID from URL", video_id |-> ""]
    ELSE [status |-> 0, detail |-> "", video_id |-> r.video_id[1]]

\* A variant without the check of the extracted ID: only an exception of
\* the parser ends the request.
validated_unchecked_id(r) ==
    IF r.raised
    THEN [status |-> 400, detail |-> "Error getting video ID from URL", video_id |-> ""]
    ELSE [status |-> 0, detail |-> "",
          video_id |-> IF r.video_id = None THEN "" ELSE r.video_id[1]]

\* Lines 203-211 on the result r of get_youtube_video_id.  The
\* HTTPException raised for a missing ID is raised inside the try block, so
\* the handler of Exception replaces it.
validated(r) ==
    IF r.raised \/ ~Truthy(r.video_id)
    THEN [status |-> 400, detail |-> "Error getting video ID from URL", video_id |-> ""]
    ELSE [status |-> 0, detail |-> "", video_id |-> r.video_id[1]]

\* The validation every POST handler starts with (src/main.py:116-128,
\* 199-211, 244-256, 291-303): [status, detail, video_id], status 0 when
\* the URL yields a video ID.
resolve_video_id(url) ==
    IF url = ""
    THEN [status |-> 400, detail |-> "No URL provided", video_id |-> ""]
    ELSE validated(get_youtube_video_id(url))

\* resolve_video_id on the URLs the clients send.
ResolvedUrl == [url \in RequestUrls |-> resolve_video_id(url)]

\* raise HTTPException(status_code, detail): the request ends with it.
Respond(rq, status, body) ==
    [rq EXCEPT !.pc = "done", !.status = status, !.body = Some(body)]

\* A variant that reports a missing proxy as an error.
health_check_needs_proxy(config) ==
    IF config = None
    THEN [status |-> 503,
          body   |-> [status |-> "unhealthy", proxy_status |-> "webshare_disabled",
                      parallel_processing |-> "enabled"]]
    ELSE [status |-> 200,
          body   |-> [status |-> "healthy", proxy_status |-> "webshare_enabled",
                      parallel_processing |-> "enabled"]]

\* health_check (src/main.py:377-391): the response of GET /health.
health_check(config) ==
    [status |-> 200,
     body   |-> [status |-> "healthy",
                 proxy_status |-> IF config # None THEN "webshare_enabled"
                                  ELSE "webshare_disabled",
                 parallel_processing |-> "enabled"]]

\* The owner of the event-loop thread while request r waits for urlopen
\* (src/main.py:137): urlopen is called by the handler itself.
urlopen_loop_owner(r) == r

\* A variant that calls the blocking function from the handler itself.
to_thread_blocking(r) == r

\* The owner of the event-loop thread while request r awaits
\* asyncio.to_thread (src/main.py:217, 262, 313): nobody.
to_thread_loop_owner(r) == 0

\* A variant that calls list again after an exception.
thread_retry(rq) ==
    [rq EXCEPT !.pc = "list",
               !.calls = Append(@, Call("list", rq.video_id, <<>>))]

\* An exception leaving the function that to_thread runs: the function
\* ends, and the awaiting handler will see the exception.
thread_raise(rq) == [rq EXCEPT !.pc = "resume", !.exc = TRUE]

\* The function that to_thread runs returns a value.
thread_return(rq, value) == [rq EXCEPT !.pc = "resume", !.result = Some(value)]

SetRet(rq, answer) ==
    [rq EXCEPT !.calls[Len(rq.calls)].ret = Some(answer)]

\* Connections are numbered in the order in which their requests arrive.
CanStart(r) ==
    /\ req[r].pc = "idle"
    /\ loop = 0
    /\ IF r = 1 THEN TRUE ELSE req[r - 1].pc # "idle"

\* GET /health
Health(r) ==
    /\ CanStart(r)
    /\ LET resp == health_check(proxy)
       IN  req' = [req EXCEPT ![r] =
                     Respond([@ EXCEPT !.ep = "/health"], resp.status, resp.body)]
    /\ UNCHANGED <<proxy, loop>>

\* POST /video-data up to the response or to the call of urlopen
\* (src/main.py:337-345, 112-137).
VideoDataStart(r, url) ==
    /\ CanStart(r)
    /\ LET v  == ResolvedUrl[url]
           rq == [req[r] EXCEPT !.ep = "/video-data", !.url = url]
       IN  IF v.status # 0
           THEN /\ req' = [req EXCEPT ![r] = Respond(rq, v.status, v.detail)]
                /\ loop' = loop
           ELSE /\ req' = [req EXCEPT ![r] =
                             [rq EXCEPT !.pc = "oembed",
                                        !.video_id = v.video_id,
                                        !.calls = <<Call("oembed", v.video_id, <<>>)>>]]
                /\ loop' = urlopen_loop_owner(r)
    /\ UNCHANGED proxy

\* urlopen returns or raises, and the handler runs to its end
\* (src/main.py:137-159).
VideoDataReturn(r, answer) ==
    /\ req[r].pc = "oembed"
    /\ LET rq == SetRet(req[r], answer)
       IN  req' = [req EXCEPT ![r] =
                     IF answer = None
                     THEN Respond(rq, 500, "Error getting video data")
                     ELSE Respond(rq, 200, [title |-> answer[1]])]
    /\ loop' = IF loop = r THEN 0 ELSE loop
    /\ UNCHANGED proxy

\* POST /video-captions, /video-timestamps and /video-transcript-languages
\* up to the response or to the await of asyncio.to_thread, which hands the
\* blocking function to a worker thread (src/main.py:195-219, 240-264,
\* 287-313).
TranscriptStart(r, ep, url, languages) ==
    /\ CanStart(r)
    /\ LET v  == ResolvedUrl[url]
           rq == [req[r] EXCEPT !.ep = ep, !.url = url, !.languages = languages]
       IN  IF v.status # 0
           THEN /\ req' = [req EXCEPT ![r] = Respond(rq, v.status, v.detail)]
                /\ loop' = loop
           ELSE /\ req' = [req EXCEPT ![r] =
                             [rq EXCEPT !.pc = "thread",
                                        !.video_id = v.video_id]]
                /\ loop' = to_thread_loop_owner(r)
    /\ UNCHANGED proxy

\* On the worker thread: the function given to to_thread starts, creates
\* the API object and calls list (src/main.py:173-176, 309-310).
ListCall(r) ==
    /\ req[r].pc = "thread"
    /\ req' = [req EXCEPT ![r] =
                 [@ EXCEPT !.pc = "list",
                           !.calls = Append(@, Call("list", req[r].video_id, <<>>))]]
    /\ UNCHANGED <<proxy, loop>>

\* On the worker thread: list returns or raises.  The language lister
\* returns the listing (src/main.py:308-310); the resolver chooses the
\* language and calls fetch (src/main.py:176-192).
ListReturn(r, answer) ==
    /\ req[r].pc = "list"
    /\ LET rq == SetRet(req[r], answer)
       IN  req' = [req EXCEPT ![r] =
                     IF answer = None THEN thread_raise(rq)
                     ELSE IF rq.ep = "/video-transcript-languages"
                     THEN thread_return(rq, answer[1])
                     ELSE LET c == ChooseLanguages(rq.languages, answer[1])
                          IN  IF c.raised THEN thread_raise(rq)
                              ELSE [rq EXCEPT
                                      !.pc = "fetch",
                                      !.calls = Append(@, Call("fetch", rq.video_id,
                                                               c.languages))]]
    /\ UNCHANGED <<proxy, loop>>

\* On the worker thread: fetch returns or raises (src/main.py:184-192).
FetchReturn(r, answer) ==
    /\ req[r].pc = "fetch"
    /\ LET rq == SetRet(req[r], answer)
       IN  req' = [req EXCEPT ![r] =
                     IF answer = None THEN thread_raise(rq)
                     ELSE thread_return(rq, answer[1])]
    /\ UNCHANGED <<proxy, loop>>

\* The handler resumes on the event loop after its worker thread finished,
\* and runs to its end (src/main.py:221-237, 266-284, 315-331).
Resume(r) ==
    /\ req[r].pc = "resume"
    /\ loop \in {0, r}
    /\ LET rq == req[r]
       IN  req' = [req EXCEPT ![r] =
                     IF rq.exc
                     THEN Respond(rq, 500, "Error")
                     ELSE IF rq.ep = "/video-captions"
                     THEN Respond(rq, 200, [captions |-> caption_text(rq.result[1])])
                     ELSE IF rq.ep = "/video-timestamps"
                     THEN Respond(rq, 200, [timestamps |-> timestamps(rq.result[1])])
                     ELSE Respond(rq, 200, [available_languages |-> rq.result[1]])]
    /\ loop' = 0
    /\ UNCHANGED proxy

ServerIdle == req = [r \in Requests |-> NewRequest] /\ loop = 0

HarnessIdle ==
    /\ parse_in = ParseIdle /\ parse_out = None
    /\ res_in = <<>> /\ res_out = None
    /\ fmt_in = <<>> /\ fmt_out = None

\* get_webshare_config (src/main.py:35-50), read once when the process starts.
get_webshare_config(env) == IF env = "" THEN None ELSE Some(env)

Init ==
    /\ \E env \in {"", "http://user:pw@p.webshare.io:80"} :
         proxy = get_webshare_config(env)
    /\ ServerIdle
    /\ HarnessIdle

Next ==
    \/ \E r \in Requests : Health(r) /\ UNCHANGED <<parse_in, parse_out, res_in, res_out, fmt_in, fmt_out>>
    \/ \E r \in Requests, url \in RequestUrls :
         VideoDataStart(r, url) /\ UNCHANGED <<parse_in, parse_out, res_in, res_out, fmt_in, fmt_out>>
    \/ \E r \in Requests, answer \in OEmbedAnswers :
         VideoDataReturn(r, answer) /\ UNCHANGED <<parse_in, parse_out, res_in, res_out, fmt_in, fmt_out>>
    \/ \E r \in Requests, ep \in TranscriptEndpoints, url \in RequestUrls :
       \E languages \in RequestLanguages(ep) :
         TranscriptStart(r, ep, url, languages) /\ UNCHANGED <<parse_in, parse_out, res_in, res_out, fmt_in, fmt_out>>
    \/ \E r \in Requests : ListCall(r) /\ UNCHANGED <<parse_in, parse_out, res_in, res_out, fmt_in, fmt_out>>
    \/ \E r \in Requests, answer \in ListAnswers :
         ListReturn(r, answer) /\ UNCHANGED <<parse_in, parse_out, res_in, res_out, fmt_in, fmt_out>>
    \/ \E r \in Requests, answer \in FetchAnswers :
         FetchReturn(r, answer) /\ UNCHANGED <<parse_in, parse_out, res_in, res_out, fmt_in, fmt_out>>
    \/ \E r \in Requests : Resume(r) /\ UNCHANGED <<parse_in, parse_out, res_in, res_out, fmt_in, fmt_out>>

Spec == Init /\ [][Next]_vars

-----------------------------------------------------------------------------
(* The URL parser alone: one call of get_youtube_video_id per behaviour.   *)

InitParse ==
    /\ proxy = None
    /\ ServerIdle
    /\ ParseInit
    /\ res_in = <<>> /\ res_out = None
    /\ fmt_in = <<>> /\ fmt_out = None

NextParse ==
    ParseCall /\ UNCHANGED <<proxy, req, loop, res_in, res_out, fmt_in, fmt_out>>

SpecParse == InitParse /\ [][NextParse]_vars

-----------------------------------------------------------------------------
(* The language selection alone: the arguments of                          *)
(* _get_transcript_with_fallback and the listing that list returned, then  *)
(* the fetch call the function makes.                                      *)

MaxRequested == 2
MaxAvailable == 3

LanguageCodes == {"en", "es", "fr", "de"}

SeqsUpTo(S, n) == UNION { [1..k -> S] : k \in 0..n }

ResolveInit ==
    /\ res_in \in
         [languages : {None} \cup { Some(l) : l \in SeqsUpTo(LanguageCodes, MaxRequested) },
          available : SeqsUpTo(LanguageCodes, MaxAvailable)]
    /\ res_out = None

\* Lines 177-192 of one call, given the listing.
ResolveCall ==
    /\ res_out = None
    /\ res_out' = Some(ChooseLanguages(res_in.languages, res_in.available))
    /\ UNCHANGED res_in

InitResolve ==
    /\ proxy = None
    /\ ServerIdle
    /\ ResolveInit
    /\ parse_in = ParseIdle /\ parse_out = None
    /\ fmt_in = <<>> /\ fmt_out = None

NextResolve ==
    ResolveCall /\ UNCHANGED <<proxy, req, loop, parse_in, parse_out, fmt_in, fmt_out>>

SpecResolve == InitResolve /\ [][NextResolve]_vars

-----------------------------------------------------------------------------
(* The formatters alone, on a fetched transcript.                          *)

MaxSnippets == 2
MaxStartTenths == 1300

SnippetTexts == {"hello", "b"}

\* Offsets around the minute and hour marks, and two negative ones.
SnippetStarts == {-15, -5, 0, 9, 599, 600, 35999, 36000, 36605, 72615}

FormatInit ==
    /\ fmt_in \in
         SeqsUpTo([start : SnippetStarts, text : SnippetTexts], MaxSnippets)
         \cup { <<[start |-> t, text |-> "hello"]>> : t \in 0..MaxStartTenths }
    /\ fmt_out = None

\* Lines 223-234 on the transcript.
FormatCaptions ==
    /\ fmt_out = None
    /\ fmt_out' = Some([captions |-> caption_text(fmt_in)])
    /\ UNCHANGED fmt_in

\* Lines 270-281 on the transcript.
FormatTimestamps ==
    /\ fmt_out = None
    /\ fmt_out' = Some([timestamps |-> timestamps(fmt_in)])
    /\ UNCHANGED fmt_in

InitFormat ==
    /\ proxy = None
    /\ ServerIdle
    /\ FormatInit
    /\ parse_in = ParseIdle /\ parse_out = None
    /\ res_in = <<>> /\ res_out = None

NextFormat ==
    \/ FormatCaptions /\ UNCHANGED <<proxy, req, loop, parse_in, parse_out, res_in, res_out>>
    \/ FormatTimestamps /\ UNCHANGED <<proxy, req, loop, parse_in, parse_out, res_in, res_out>>

SpecFormat == InitFormat /\ [][NextFormat]_vars

-----------------------------------------------------------------------------
(* Properties of the language selection, under SpecResolve.                *)

Least(S) == CHOOSE i \in S : \A k \in S : i <= k

\* The positions of the requested list whose code the listing holds.
RequestedHits ==
    { i \in 1..Len(res_in.languages[1]) :
        \E j \in 1..Len(res_in.available) :
            res_in.available[j] = res_in.languages[1][i] }

\* C1: with a non-empty list of requested codes and a non-empty listing,
\* the language fetched is the first requested code, in the order of the
\* request, that the listing holds, and the first code of the listing when
\* it holds none of them.
C1_RequestedThenFirstListed ==
    (/\ res_out # None
     /\ res_in.languages # None
     /\ res_in.languages # Some(<<>>)
     /\ res_in.available # <<>>)
    => /\ ~res_out[1].raised
       /\ IF RequestedHits # {}
          THEN res_out[1].languages = <<res_in.languages[1][Least(RequestedHits)]>>
          ELSE res_out[1].languages = <<res_in.available[1]>>

\* The listing holds both requested codes, in the opposite order.
C1_Witness ==
    /\ res_in = [languages |-> Some(<<"fr", "es">>), available |-> <<"es", "fr">>]
    /\ res_out = Some([raised |-> FALSE, languages |-> <<"fr">>])

\* C2: with no requested languages, the language fetched is en whenever the
\* listing holds en, at any position, and the first code of the listing
\* otherwise.
C2_EnglishThenFirstListed ==
    (/\ res_out # None
     /\ res_in.languages = None
     /\ res_in.available # <<>>)
    => /\ ~res_out[1].raised
       /\ IF \E j \in 1..Len(res_in.available) : res_in.available[j] = "en"
          THEN res_out[1].languages = <<"en">>
          ELSE res_out[1].languages = <<res_in.available[1]>>

C2_Witness ==
    /\ res_in = [languages |-> None, available |-> <<"es", "en", "fr">>]
    /\ res_out = Some([raised |-> FALSE, languages |-> <<"en">>])

-----------------------------------------------------------------------------
(* Properties of the URL parser, under SpecParse.                          *)

YouTubeHosts == {"youtube.com", "www.youtube.com"}

\* C8: the parser returns exactly <id> for youtu.be/<id> and, on the hosts
\* youtube.com and www.youtube.com, for /watch with v=<id>, /embed/<id> and
\* /v/<id>; it returns no ID for every URL of another host and for every
\* path of a youtube.com host that is none of /watch, /embed/..., /v/....
C8_ParserShapes ==
    parse_out # None =>
      /\ ~parse_out[1].raised
      /\ (parse_in.host = "youtu.be" /\ parse_in.shape = "id")
           => parse_out[1].video_id = Some(parse_in.id)
      /\ (parse_in.host \in YouTubeHosts /\ parse_in.shape = "watch" /\ parse_in.v # "")
           => parse_out[1].video_id = Some(parse_in.v)
      /\ (parse_in.host \in YouTubeHosts /\ parse_in.shape \in {"embed", "v"})
           => parse_out[1].video_id = Some(parse_in.id)
      /\ parse_in.host \notin (YouTubeHosts \cup {"youtu.be"})
           => parse_out[1].video_id = None
      /\ (parse_in.host \in YouTubeHosts /\ parse_in.shape \in {"other", "id"})
           => parse_out[1].video_id = None

C8_Witness ==
    /\ parse_in.url = "https://www.youtube.com/watch?t=42&v=dQw4w9WgXcQ"
    /\ parse_in.host = "www.youtube.com"
    /\ parse_out = Some([raised |-> FALSE, video_id |-> Some("dQw4w9WgXcQ")])

-----------------------------------------------------------------------------
(* Properties of the timestamp formatter, under SpecFormat.                *)

\* floor(s) of an offset of start tenths of a second, start >= 0.
WholeSeconds(start) ==
    CHOOSE n \in 0..(start \div 10 + 1) : 10 * n <= start /\ start < 10 * n + 10

\* The line "<m>:<ss> - <text>" with m * 60 + ss = n and 0 <= ss <= 59.
ExpectedLine(n, text) ==
    LET m  == CHOOSE k \in 0..n : 60 * k <= n /\ n < 60 * k + 60
        ss == n - 60 * m
    IN  ToString(m) \o ":" \o (IF ss < 10 THEN "0" ELSE "") \o ToString(ss)
          \o " - " \o text

\* C7: the timestamps are one line per snippet, in transcript order, and
\* the line of a snippet with a non-negative offset s is "<m>:<ss> - <text>"
\* with m = floor(s) div 60, not wrapped at 60, and ss = floor(s) mod 60 in
\* two digits.
C7_TimestampLines ==
    (fmt_out # None /\ DOMAIN fmt_out[1] = {"timestamps"}) =>
      /\ Len(fmt_out[1].timestamps) = Len(fmt_in)
      /\ \A i \in 1..Len(fmt_in) :
           fmt_in[i].start >= 0 =>
             fmt_out[1].timestamps[i]
               = ExpectedLine(WholeSeconds(fmt_in[i].start), fmt_in[i].text)

C7_Witness ==
    /\ fmt_in = <<[start |-> 1257, text |-> "hello"]>>
    /\ fmt_out = Some([timestamps |-> <<"2:05 - hello">>])

-----------------------------------------------------------------------------
(* Properties of the server, under Spec.                                   *)

PostEndpoints == TranscriptEndpoints \cup {"/video-data"}

\* The URLs of the clients that are empty, match no rule of the parser
\* (another host, a host that cannot be parsed, a bracketed host beside
\* the name) or hold an empty ID.
BadUrls ==
    { "",
      "https://example.com/watch?v=dQw4w9WgXcQ",
      "http://[youtu.be/dQw4w9WgXcQ",
      "http://[youtu.be]/dQw4w9WgXcQ",
      "http://youtu.be:[::1]/dQw4w9WgXcQ",
      "https://youtu.be/" }

\* C3: on each of the four POST endpoints, a request whose url is empty,
\* matches no parsing rule or yields an empty video ID ends with a 400
\* response, never with a 500 or a 200.
C3_BadUrlIs400 ==
    \A r \in Requests :
        (req[r].ep \in PostEndpoints /\ req[r].url \in BadUrls)
        => (req[r].pc = "done" /\ req[r].status = 400)

C3_Witness ==
    \E r \in Requests :
        /\ req[r].ep = "/video-captions"
        /\ req[r].url = "https://youtu.be/"
        /\ req[r].pc = "done"
        /\ req[r].status = 400

\* The upstream call has returned with a failure.
CallFailed(c) == c.ret # None /\ c.ret[1] = None

\* The upstream call has returned with an answer.
CallSucceeded(c) == c.ret # None /\ c.ret[1] # None

CallsOf(r, op) == { i \in 1..Len(req[r].calls) : req[r].calls[i].op = op }

\* C4: there is no retry.  A failed upstream call is the last call of its
\* request, whose only next step is the 500 response; and a request makes
\* at most one oEmbed call, one list call and one fetch call.
C4_NoRetry ==
    \A r \in Requests :
        /\ \A op \in {"oembed", "list", "fetch"} : Cardinality(CallsOf(r, op)) <= 1
        /\ \A i \in 1..Len(req[r].calls) :
               CallFailed(req[r].calls[i])
               => /\ i = Len(req[r].calls)
                  /\ req[r].pc \in {"resume", "done"}
                  /\ req[r].pc = "done" => req[r].status = 500

\* The listing succeeded, the fetch failed, and the request ended with 500.
C4_Witness ==
    \E r \in Requests :
        /\ req[r].pc = "done"
        /\ req[r].status = 500
        /\ Len(req[r].calls) = 2
        /\ CallSucceeded(req[r].calls[1])
        /\ CallFailed(req[r].calls[2])

\* C5: on /video-captions and /video-timestamps, a fetch call follows a
\* list call of the same request and video ID that returned a listing,
\* names exactly one language code, and that code is in the listing.
C5_FetchAfterList ==
    \A r \in Requests :
        req[r].ep \in {"/video-captions", "/video-timestamps"} =>
          \A i \in CallsOf(r, "fetch") :
              /\ i > 1
              /\ req[r].calls[i - 1].op = "list"
              /\ CallSucceeded(req[r].calls[i - 1])
              /\ req[r].calls[i - 1].video_id = req[r].calls[i].video_id
              /\ Len(req[r].calls[i].languages) = 1
              /\ \E j \in 1..Len(req[r].calls[i - 1].ret[1][1]) :
                     req[r].calls[i - 1].ret[1][1][j] = req[r].calls[i].languages[1]

\* The first requested code is not in the listing; the second is fetched.
C5_Witness ==
    \E r \in Requests :
        /\ req[r].ep = "/video-timestamps"
        /\ req[r].languages = Some(<<"de", "fr">>)
        /\ req[r].pc = "fetch"
        /\ req[r].calls[1].ret = Some(Some(<<"es", "fr">>))
        /\ req[r].calls[2].languages = <<"fr">>

\* The request is a /video-captions request that has ended and whose list
\* and fetch calls both returned an answer.
CaptionsFetched(r) ==
    /\ req[r].ep = "/video-captions"
    /\ req[r].pc = "done"
    /\ Len(req[r].calls) = 2
    /\ CallSucceeded(req[r].calls[2])

\* C6: on /video-captions, when list and fetch succeed, an empty transcript
\* gives a 200 response whose captions are "No captions found for video",
\* and a transcript with snippets gives the snippet texts joined by single
\* spaces, in snippet order, and not that sentence.
C6_EmptyTranscriptIsNotAnError ==
    \A r \in Requests :
        CaptionsFetched(r) =>
          LET snippets == req[r].calls[2].ret[1][1]
          IN  /\ req[r].status = 200
              /\ snippets = <<>>
                   => req[r].body[1].captions = "No captions found for video"
              /\ snippets # <<>>
                   => /\ Split(req[r].body[1].captions, " ")
                           = [i \in 1..Len(snippets) |-> snippets[i].text]
                      /\ req[r].body[1].captions # "No captions found for video"

C6_Witness ==
    \E r \in Requests :
        /\ CaptionsFetched(r)
        /\ req[r].calls[2].ret = Some(Some(<<>>))
        /\ req[r].status = 200
        /\ req[r].body = Some([captions |-> "No captions found for video"])

\* C9: GET /health answers 200 with status "healthy", with and without a
\* proxy and whatever the other requests do; it makes no upstream call.
C9_HealthIs200 ==
    \A r \in Requests :
        req[r].ep = "/health"
        => /\ req[r].pc = "done"
           /\ req[r].status = 200
           /\ req[r].body[1].status = "healthy"
           /\ req[r].calls = <<>>

\* Without a proxy, beside a request that ended with a 500 response.
C9_Witness ==
    /\ proxy = None
    /\ \E r, q \in Requests :
          /\ req[r].ep = "/health" /\ req[r].status = 200
          /\ req[q].pc = "done" /\ req[q].status = 500

\* The request waits for its worker thread, which is about to call list
\* or is inside list or fetch.
TranscriptWaiting(r) ==
    /\ req[r].ep \in TranscriptEndpoints
    /\ req[r].pc \in {"thread", "list", "fetch"}

\* Some /video-data request waits for urlopen.
VideoDataWaiting == \E q \in Requests : req[q].pc = "oembed"

\* C10: the list and fetch calls of the transcript endpoints run off the
\* event loop.  A request waiting for them never holds the event loop, and
\* beside it (no /video-data handler being inside urlopen) a new request can
\* start and a handler whose worker thread finished can resume.
C10_TranscriptCallsOffLoop ==
    \A r \in Requests :
        TranscriptWaiting(r) =>
          /\ loop # r
          /\ ~VideoDataWaiting =>
               \A q \in Requests \ {r} :
                   /\ (req[q].pc = "idle" /\ (q = 1 \/ req[q - 1].pc # "idle"))
                        => ENABLED Health(q)
                   /\ req[q].pc = "resume" => ENABLED Resume(q)

\* Request 1 is suspended at the await and its worker thread has not called
\* list yet; request 2, which arrived after it, is a transcript request
\* that has been answered.
C10_Witness ==
    /\ TranscriptWaiting(1) /\ req[1].pc = "thread" /\ req[1].calls = <<>>
    /\ req[2].ep = "/video-captions"
    /\ req[2].pc = "done"
    /\ req[2].status = 200

\* The connection q on which the next request arrives.
NextArrival(q) ==
    /\ req[q].pc = "idle"
    /\ (q = 1 \/ req[q - 1].pc # "idle")

\* C11: requests are handled concurrently and independently.  While a
\* /video-data request waits for the oEmbed response it does not hold the
\* event loop: a request arriving meanwhile (GET /health) can be started
\* and answered, and a handler whose worker thread finished can resume.
C11_VideoDataDoesNotBlock ==
    \A r \in Requests :
        req[r].pc = "oembed" =>
          /\ loop # r
          /\ \A q \in Requests \ {r} :
                 /\ NextArrival(q) => ENABLED Health(q)
                 /\ req[q].pc = "resume" => ENABLED Resume(q)

\* Request 1 is inside urlopen and holds the event loop; the request arriving
\* on connection 2 cannot be started.
C11_Witness ==
    /\ req[1].ep = "/video-data"
    /\ req[1].pc = "oembed"
    /\ loop = 1
    /\ NextArrival(2)
    /\ ~ENABLED Health(2)

\* What get_youtube_video_id extracts from each URL the clients send.
ExtractedId == [url \in RequestUrls |-> get_youtube_video_id(url)]

\* The URL yields a non-empty video ID.
HasVideoId(url) ==
    /\ url # ""
    /\ ~ExtractedId[url].raised
    /\ ExtractedId[url].video_id # None
    /\ ExtractedId[url].video_id[1] # ""

\* C12: validation precedes every side effect.  On the four POST endpoints
\* a request answered with 400 has issued no upstream call (no oEmbed GET,
\* no list, no fetch); and every upstream call a request has issued belongs
\* to a url from which a non-empty video ID was extracted, and carries
\* that ID.
C12_ValidationBeforeCalls ==
    \A r \in Requests :
        req[r].ep \in PostEndpoints =>
          /\ req[r].status = 400 => req[r].calls = <<>>
          /\ \A i \in 1..Len(req[r].calls) :
                 /\ HasVideoId(req[r].url)
                 /\ req[r].calls[i].video_id = ExtractedId[req[r].url].video_id[1]

\* One request was refused with 400 without any call; another one, whose
\* url holds an ID, has issued its calls with that ID.
C12_Witness ==
    \E r, q \in Requests :
        /\ req[r].ep = "/video-data"
        /\ req[r].url = "https://example.com/watch?v=dQw4w9WgXcQ"
        /\ req[r].status = 400
        /\ req[r].calls = <<>>
        /\ req[q].ep = "/video-timestamps"
        /\ Len(req[q].calls) = 2
        /\ req[q].calls[2].op = "fetch"
        /\ req[q].calls[2].video_id = "dQw4w9WgXcQ"

====
